---- MODULE Spec2Model ----
(***************************************************************************)
(* Column profiling of data_profiling.py: the type classifier              *)
(* (_detect_col_dtypes), the currency cleaner (_currency_cleaner), the     *)
(* frequency binner (_generate_frequency_bins) and the column summarizer   *)
(* (_count_distinct_excel), over a table of one column.                    *)
(*                                                                         *)
(* Numbers are exact rationals: a numeric cell n stands for n / Denom.     *)
(* Text is a sequence of characters.  A cell is a record                   *)
(*   [k |-> "na" | "num" | "str", n |-> Int, s |-> Seq(char)].             *)
(***************************************************************************)
EXTENDS Integers, Sequences, FiniteSets

\* ---------------------------------------------------------------- bounds
\* resolution of numeric cells: a cell n is the number n / Denom
Denom == 2
\* longest column of the free-form family
MaxLen == 3
\* largest numerator of the wide family (values 0 .. WideMax)
WideMax == 10

\* ------------------------------------------------------ program constants
\* np.histogram(data, bins=nbins)
nbins == 10
\* len(value_counts().index) < 10
LowCardinality == 10

\* ------------------------------------------------------------ arithmetic
Abs(x) == IF x < 0 THEN -x ELSE x

RECURSIVE SumSeq(_)
SumSeq(s) == IF s = <<>> THEN 0 ELSE Head(s) + SumSeq(Tail(s))

\* p / q (q > 0) rounded to the nearest integer, ties to the even one:
\* what format(x, ",.0f") does to the magnitude of x
RoundHalfEven(p, q) ==
    LET fl == p \div q
        r  == p - fl * q
    IN  IF 2 * r < q THEN fl
        ELSE IF 2 * r > q THEN fl + 1
        ELSE IF fl % 2 = 0 THEN fl ELSE fl + 1

\* ----------------------------------------------------------------- cells
NA == [k |-> "na", n |-> 0, s |-> <<>>]
Num(x) == [k |-> "num", n |-> x, s |-> <<>>]
Str(t) == [k |-> "str", n |-> 0, s |-> t]

IsNA(c) == c.k = "na"
IsNum(c) == c.k = "num"
IsStr(c) == c.k = "str"

DigitChars == <<"0", "1", "2", "3", "4", "5", "6", "7", "8", "9">>
IsDigit(ch) == \E i \in 1..10 : DigitChars[i] = ch
DigitVal(ch) == (CHOOSE i \in 1..10 : DigitChars[i] = ch) - 1

\* the decimal digits of a natural number
RECURSIVE Digits(_)
Digits(m) ==
    IF m < 10 THEN <<DigitChars[m + 1]>>
    ELSE Digits(m \div 10) \o <<DigitChars[(m % 10) + 1]>>

RECURSIVE DigitsValue(_)
DigitsValue(t) ==
    IF t = <<>> THEN 0
    ELSE 10 * DigitsValue(SubSeq(t, 1, Len(t) - 1)) + DigitVal(t[Len(t)])

\* text that float() / to_numeric accept: an optional sign and digits
IsNumericText(t) ==
    LET body == IF t # <<>> /\ Head(t) = "-" THEN Tail(t) ELSE t
    IN  body # <<>> /\ \A i \in 1..Len(body) : IsDigit(body[i])

NumericTextValue(t) ==
    IF Head(t) = "-" THEN -(DigitsValue(Tail(t)) * Denom)
    ELSE DigitsValue(t) * Denom

\* ------------------------------------------------------- _currency_cleaner
\* str.replace(pat, "", regex=False): every non-overlapping occurrence of
\* pat, left to right, is removed
RECURSIVE RemoveAll(_, _)
RemoveAll(t, pat) ==
    IF Len(t) < Len(pat) THEN t
    ELSE IF SubSeq(t, 1, Len(pat)) = pat
         THEN RemoveAll(SubSeq(t, Len(pat) + 1, Len(t)), pat)
         ELSE <<Head(t)>> \o RemoveAll(Tail(t), pat)

CurrencyPatterns ==
    << <<"$">>, <<"EURO_SIGN">>, <<"POUND_SIGN">>, <<"U", "S", "D">>,
       <<"G", "B", "P">>, <<"E", "U", "R">>, <<"YEN_SIGN">>,
       <<"FRANC_SIGN">>, <<"RUPEE_SIGN">>, <<",">> >>

RECURSIVE RemovePatterns(_, _)
RemovePatterns(t, pats) ==
    IF pats = <<>> THEN t
    ELSE RemovePatterns(RemoveAll(t, Head(pats)), Tail(pats))

\* the .str accessor works on a column of dtype object whose present cells
\* are not all numbers; on any other column it raises AttributeError
StrAccessorOk(col) ==
    /\ col.dtype = "object"
    /\ \/ \A i \in 1..Len(col.vals) : IsNA(col.vals[i])
       \/ \E i \in 1..Len(col.vals) : IsStr(col.vals[i])

\* .str.replace maps a cell that is not text to missing
CleanCell(c) == IF IsStr(c) THEN Str(RemovePatterns(c.s, CurrencyPatterns)) ELSE NA

currency_cleaner(col) == [i \in 1..Len(col.vals) |-> CleanCell(col.vals[i])]

\* ------------------------------------------------------ _detect_col_dtypes
\* astype("float") of one cell: defined for numbers, missing cells (NaN)
\* and numeric text; anything else raises ValueError
FloatOk(c) == IsNA(c) \/ IsNum(c) \/ (IsStr(c) /\ IsNumericText(c.s))
FloatVal(c) == IF IsNum(c) THEN c.n ELSE IF IsStr(c) THEN NumericTextValue(c.s) ELSE 0

AsFloatOk(col) == \A i \in 1..Len(col.vals) : FloatOk(col.vals[i])
HasNaN(col) == \E i \in 1..Len(col.vals) : IsNA(col.vals[i])

\* astype("int") of a float truncates toward zero
Trunc(x) == IF x >= 0 THEN (x \div Denom) * Denom ELSE -(((-x) \div Denom) * Denom)

\* Series.sum() skips NaN
FloatSum(col) == SumSeq([i \in 1..Len(col.vals) |-> FloatVal(col.vals[i])])
IntSum(col) == SumSeq([i \in 1..Len(col.vals) |-> Trunc(FloatVal(col.vals[i]))])

\* lines 54-62: astype("int") raises on NaN, the except clause swallows it
IntegerCheck(col) == AsFloatOk(col) /\ ~HasNaN(col) /\ IntSum(col) = FloatSum(col)

\* lines 65-70
FloatCheck(col) == AsFloatOk(col) /\ FloatSum(col) > 0

\* pd.to_numeric of one cleaned cell: empty text becomes NaN
ToNumericOk(c) == ~IsStr(c) \/ c.s = <<>> \/ IsNumericText(c.s)
ToNumericCell(c) ==
    IF IsStr(c) THEN (IF c.s = <<>> THEN NA ELSE Num(NumericTextValue(c.s))) ELSE c

\* lines 74-79, given that the cleaner returned
CurrencyCheck(col) ==
    \A i \in 1..Len(col.vals) : ToNumericOk(currency_cleaner(col)[i])

\* lines 82-87: astype("string") accepts every cell
StringCheck(col) == TRUE

\* the classifier on one column: the tag it stores, or the exception of
\* the cleaner call of line 73, which no try block encloses
detect_col_dtypes(col) ==
    IF IntegerCheck(col) THEN [raised |-> FALSE, tag |-> "integer"]
    ELSE IF FloatCheck(col) THEN [raised |-> FALSE, tag |-> "float"]
    ELSE IF ~StrAccessorOk(col) THEN [raised |-> TRUE, tag |-> "unknown"]
    ELSE IF CurrencyCheck(col) THEN [raised |-> FALSE, tag |-> "currency"]
    ELSE IF StringCheck(col) THEN [raised |-> FALSE, tag |-> "string"]
    ELSE [raised |-> FALSE, tag |-> "unknown"]

\* ------------------------------------------------ _generate_frequency_bins
\* a row of a summary table: the label cell and the measure n / d
\* (a count c is c / 1; the NaN of 0 / 0 is [n |-> 0, d |-> 0])
Row(label, n, d) == [label |-> label, n |-> n, d |-> d]

\* the present cells of the column, as numbers (lines 108-109)
Present(col) == SelectSeq(col.vals, LAMBDA c : ~IsNA(c))
count_nulls(col) == Len(SelectSeq(col.vals, IsNA))
PresentNums(col) == [i \in 1..Len(Present(col)) |-> FloatVal(Present(col)[i])]

SeqMin(s) == CHOOSE x \in {s[i] : i \in 1..Len(s)} : \A j \in 1..Len(s) : x <= s[j]
SeqMax(s) == CHOOSE x \in {s[i] : i \in 1..Len(s)} : \A j \in 1..Len(s) : x >= s[j]

\* np.histogram over text is a TypeError
HistogramRaises(col) == \E i \in 1..Len(col.vals) : IsStr(col.vals[i])

\* edges are kept in units of 1 / (nbins * Denom)
EdgeUnit == nbins * Denom

\* np.histogram's outer edges: (0, 1) for no data, (min - 0.5, max + 0.5)
\* for a single value, (min, max) otherwise
FirstEdge(data) ==
    IF data = <<>> THEN 0
    ELSE IF SeqMin(data) = SeqMax(data) THEN nbins * SeqMin(data) - (EdgeUnit \div 2)
    ELSE nbins * SeqMin(data)

\* the width of one bin, in edge units
BinWidth(data) ==
    IF data = <<>> \/ SeqMin(data) = SeqMax(data) THEN Denom
    ELSE SeqMax(data) - SeqMin(data)

\* the bin of a value: [edges[i], edges[i+1]), the last bin closed
BinOf(first, width, v) ==
    LET i == (nbins * v - first) \div width
    IN  IF i >= nbins THEN nbins - 1 ELSE i

\* line 112: freqs[1 .. nbins] and edges[1 .. nbins + 1]
histogram(data) ==
    LET first == FirstEdge(data)
        width == BinWidth(data)
        bin   == [j \in 1..Len(data) |-> BinOf(first, width, data[j])]
    IN  [freqs |-> [i \in 1..nbins |-> Cardinality({j \in 1..Len(data) : bin[j] = i - 1})],
         edges |-> [i \in 1..(nbins + 1) |-> first + (i - 1) * width]]

\* thousands grouping of format(x, ",")
Pad3(m) ==
    IF m < 10 THEN <<"0", "0">> \o Digits(m)
    ELSE IF m < 100 THEN <<"0">> \o Digits(m)
    ELSE Digits(m)

RECURSIVE Grouped(_)
Grouped(m) ==
    IF m < 1000 THEN Digits(m)
    ELSE Grouped(m \div 1000) \o <<",">> \o Pad3(m % 1000)

\* f"{x: ,.0f}" of x = e / EdgeUnit: a blank or a minus sign (kept on a
\* negative number that rounds to zero), then the rounded magnitude
FormatEdge(e) ==
    <<IF e < 0 THEN "-" ELSE " ">> \o Grouped(RoundHalfEven(Abs(e), EdgeUnit))

\* line 116
BinLabel(lower, upper) == Str(FormatEdge(lower) \o <<" to <">> \o FormatEdge(upper))

\* lines 115-118: a dict keyed by the label.  A label that comes again
\* keeps the position of its first bin and takes the count of its last.
DictRows(labels, freqs) ==
    LET last(i) == CHOOSE j \in i..Len(labels) :
                      /\ labels[j] = labels[i]
                      /\ \A m \in (j + 1)..Len(labels) : labels[m] # labels[i]
        first(i) == \A j \in 1..(i - 1) : labels[j] # labels[i]
        keys == SelectSeq([i \in 1..Len(labels) |-> i], first)
    IN  [k \in 1..Len(keys) |-> [label |-> labels[keys[k]], n |-> freqs[last(keys[k])], d |-> 1]]

labelled_bins(bins) ==
    DictRows([i \in 1..nbins |-> BinLabel(bins.edges[i], bins.edges[i + 1])], bins.freqs)

\* lines 120-132: the null row, then the rows of the dict
bin_df(col) == <<Row(NA, count_nulls(col), 1)>> \o labelled_bins(histogram(PresentNums(col)))

ValueSum(t) == SumSeq([i \in 1..Len(t) |-> t[i].n])

\* lines 134-135: x / x.sum() over the value column of the table
Normalized(t) == LET total == ValueSum(t) IN [i \in 1..Len(t) |-> Row(t[i].label, t[i].n, total)]

generate_frequency_bins(col, normalize) ==
    IF normalize THEN Normalized(bin_df(col)) ELSE bin_df(col)

\* --------------------------------------------------- _count_distinct_excel
\* the accepted spellings of sort_by and str.lower() on them
SortBys == {"index", "Index", "value"}
Lower(w) == IF w = "Index" THEN "index" ELSE w

\* line 161: the column replaced by pd.to_numeric of the cleaned column
CleanedColumn(col) ==
    [dtype |-> "float64",
     vals  |-> [i \in 1..Len(col.vals) |-> ToNumericCell(currency_cleaner(col)[i])]]

CellsOf(col) == {col.vals[i] : i \in 1..Len(col.vals)}
CountOf(col, c) == Cardinality({i \in 1..Len(col.vals) : col.vals[i] = c})

\* len(col.value_counts().index): the distinct present values
NDistinct(col) == Cardinality({c \in CellsOf(col) : ~IsNA(c)})

\* value_counts with dropna left at its default: no row for missing cells
ValueCountRows_dropna(col, normalize) ==
    {[label |-> c, n |-> Cardinality({i \in 1..Len(col.vals) : col.vals[i] = c}),
      d |-> IF normalize THEN Len(col.vals) ELSE 1] :
        c \in {col.vals[i] : i \in 1..Len(col.vals)} \ {NA}}

\* value_counts followed by a row for missing cells in every table
ValueCountRows_nullRow(col, normalize) ==
    {[label |-> c, n |-> Cardinality({i \in 1..Len(col.vals) : col.vals[i] = c}),
      d |-> IF normalize THEN Len(col.vals) ELSE 1] :
        c \in {col.vals[i] : i \in 1..Len(col.vals)} \cup {NA}}

\* value_counts(dropna=False, normalize=normalize): one row for each
\* distinct cell, a missing cell included; the measure is the count, or
\* the count over the length of the column
ValueCountRows(col, normalize) ==
    {Row(c, CountOf(col, c), IF normalize THEN Len(col.vals) ELSE 1) : c \in CellsOf(col)}

\* code points order the characters of a text
CharOrder ==
    <<" ", "$", ",", "-", "0", "1", "2", "3", "4", "5", "6", "7", "8", "9", "<",
      "B", "D", "E", "G", "P", "R", "S", "U", "a", "b", "o", "t",
      "POUND_SIGN", "YEN_SIGN", "FRANC_SIGN", "EURO_SIGN", "RUPEE_SIGN">>
CharCode(ch) == CHOOSE i \in 1..Len(CharOrder) : CharOrder[i] = ch

RECURSIVE StrLeq(_, _)
StrLeq(a, b) ==
    IF a = <<>> THEN TRUE
    ELSE IF b = <<>> THEN FALSE
    ELSE IF Head(a) = Head(b) THEN StrLeq(Tail(a), Tail(b))
    ELSE CharCode(Head(a)) < CharCode(Head(b))

\* ascending order of labels, missing last (na_position="last")
LabelLeq(a, b) ==
    IF IsNA(b) THEN TRUE
    ELSE IF IsNA(a) THEN FALSE
    ELSE IF IsNum(a) THEN a.n <= b.n
    ELSE StrLeq(a.s, b.s)

\* comparing a number with a text is a TypeError
LabelsComparable(rows) ==
    ~(\E r \in rows : IsNum(r.label)) \/ ~(\E r \in rows : IsStr(r.label))

\* rows of one table share the denominator, so numerators order measures
Precedes(r, q, by) ==
    IF by = "index" THEN LabelLeq(r.label, q.label) ELSE r.n >= q.n

\* sort_values(kind="quicksort"), the default: the result is sorted and the
\* order of rows with equal keys is whatever the sort leaves
RECURSIVE Orderings(_, _)
Orderings(rows, by) ==
    IF rows = {} THEN {<<>>}
    ELSE UNION {{<<r>> \o t : t \in Orderings(rows \ {r}, by)} :
                  r \in {m \in rows : \A q \in rows : Precedes(m, q, by)}}

\* value_counts sorts by count, descending (sort=True)
value_counts(col, normalize) == Orderings(ValueCountRows(col, normalize), "value")

\* both branches of the sort order by the label
sort_values_byLabel(rows, sort_by) == Orderings(rows, "index")

\* lines 175-182
sort_values(rows, sort_by) ==
    Orderings(rows, IF Lower(sort_by) = "index" THEN "index" ELSE "value")

\* the cardinality test with <= in place of <
UseValueCounts_le(tag, col) == tag = "string" \/ NDistinct(col) <= LowCardinality

\* line 164
UseValueCounts(tag, col) == tag = "string" \/ NDistinct(col) < LowCardinality

PosOf(t, r) == CHOOSE i \in 1..Len(t) : t[i] = r

\* rows with equal measure stand in `after` as they stood in `before`
TieOrderKept(before, after) ==
    \A i, j \in 1..Len(before) :
        (i < j /\ before[i].n = before[j].n) =>
            PosOf(after, before[i]) < PosOf(after, before[j])

Outcome(raised, col, tag, mode, out, kept) ==
    [raised |-> raised, col |-> col, tag |-> tag, mode |-> mode, out |-> out,
     kept |-> kept]

\* every way one call of _count_distinct_excel on a one-column table can end
count_distinct_excel(col, sort_by, normalize) ==
    LET t    == detect_col_dtypes(col)
        work == IF t.tag = "currency" THEN CleanedColumn(col) ELSE col
        rows == ValueCountRows(work, normalize)
    IN  IF t.raised
        THEN {Outcome(TRUE, col, "unknown", "none", <<>>, TRUE)}
        ELSE IF UseValueCounts(t.tag, work)
        THEN IF Lower(sort_by) = "index"
             THEN IF ~LabelsComparable(rows)
                  THEN {Outcome(TRUE, work, t.tag, "exact", <<>>, TRUE)}
                  ELSE {Outcome(FALSE, work, t.tag, "exact", after, TRUE) :
                          after \in sort_values(rows, sort_by)}
             ELSE {Outcome(FALSE, work, t.tag, "exact", after, TieOrderKept(before, after)) :
                     before \in value_counts(work, normalize),
                     after \in sort_values(rows, sort_by)}
        ELSE IF HistogramRaises(work)
        THEN {Outcome(TRUE, work, t.tag, "bins", <<>>, TRUE)}
        ELSE {Outcome(FALSE, work, t.tag, "bins",
                      generate_frequency_bins(work, normalize), TRUE)}

\* ------------------------------------------------------------ input tables
\* the dtypes pandas can give a column with these cells
DtypesOf(vals) ==
    {"object"}
    \cup (IF \A i \in 1..Len(vals) : ~IsStr(vals[i]) THEN {"float64"} ELSE {})
    \cup (IF \A i \in 1..Len(vals) : IsNum(vals[i]) /\ vals[i].n % Denom = 0
          THEN {"int64"} ELSE {})

ColumnsOf(vals) == {[dtype |-> d, vals |-> vals] : d \in DtypesOf(vals)}

\* free-form columns: every sequence of up to MaxLen of these cells, and
\* every sequence of MaxLen of them followed by its first cell once more
SmallCells ==
    {NA, Num(-1), Num(1), Num(Denom),
     Str(<<"a">>), Str(<<"b">>), Str(<<"1">>), Str(<<"$">>), Str(<<"$", "1">>),
     Str(<<"U", "S", "D", "2">>)}

SmallColumns ==
    UNION {ColumnsOf(v) : v \in UNION {[1..n -> SmallCells] : n \in 0..MaxLen}}
    \cup UNION {ColumnsOf(v \o <<v[1]>>) : v \in [1..MaxLen -> SmallCells]}

\* wide columns: at least LowCardinality - 1 distinct values in ascending
\* order, either numbers (numerators v, or whole numbers v) with or without
\* a missing cell, held in a numeric dtype, or text ("$v", or the bare
\* digits of v) with or without one more cell: "1", which cleans to the
\* same number as "$1", or "a", which is no number
RECURSIVE AscendingSeq(_)
AscendingSeq(S) ==
    IF S = {} THEN <<>>
    ELSE LET m == CHOOSE x \in S : \A y \in S : x <= y
         IN  <<m>> \o AscendingSeq(S \ {m})

WideSets == {S \in SUBSET (0..WideMax) : Cardinality(S) >= LowCardinality - 1}

WideNumbers ==
    {[i \in 1..Cardinality(S) |-> Num(AscendingSeq(S)[i] * step)] \o extra :
       S \in WideSets, step \in {1, Denom}, extra \in {<<>>, <<NA>>}}

WideTexts ==
    {[i \in 1..Cardinality(S) |-> Str(prefix \o Digits(AscendingSeq(S)[i]))] \o extra :
       S \in WideSets, prefix \in {<<"$">>, <<>>},
       extra \in {<<>>, <<Str(<<"1">>)>>, <<Str(<<"a">>)>>}}

WideColumns ==
    {c \in UNION {ColumnsOf(v) : v \in WideNumbers} : c.dtype # "object"}
    \cup UNION {ColumnsOf(v) : v \in WideTexts}

\* a wide column is summarized in label order: sorting its rows by measure
\* has as many results as there are orders of its tied rows
Inputs ==
    (SmallColumns \X SortBys \X BOOLEAN)
    \cup (WideColumns \X {"index", "Index"} \X BOOLEAN)

\* ------------------------------------------------------------ state machine
VARIABLES
    col,        \* the column of the table (_df[col])
    sort_by,    \* argument sort_by
    normalize,  \* argument normalize
    pc,         \* "ready" before the call, "done" after it
    op,         \* the function called: "detect", "bins" or "count"
    raised,     \* the call ended in an exception
    col_dtypes, \* the tag the classifier gave the column
    mode,       \* the tabulation branch taken: "exact", "bins" or "none"
    out,        \* the summary table returned
    ties_kept   \* no sort by measure has changed the order of rows of equal measure

vars == <<col, sort_by, normalize, pc, op, raised, col_dtypes, mode, out, ties_kept>>

Init ==
    /\ \E input \in Inputs :
        /\ col = input[1]
        /\ sort_by = input[2]
        /\ normalize = input[3]
    /\ pc = "ready"
    /\ op = "none"
    /\ raised = FALSE
    /\ col_dtypes = "unset"
    /\ mode = "none"
    /\ out = <<>>
    /\ ties_kept = TRUE

\* _detect_col_dtypes(_df)
DetectColDtypes ==
    /\ pc = "ready"
    /\ pc' = "done"
    /\ op' = "detect"
    /\ raised' = detect_col_dtypes(col).raised
    /\ col_dtypes' = IF detect_col_dtypes(col).raised THEN "unset"
                     ELSE detect_col_dtypes(col).tag
    /\ UNCHANGED <<col, sort_by, normalize, mode, out, ties_kept>>

\* _generate_frequency_bins(_df, fieldname, normalize) on a numeric column
GenerateFrequencyBins ==
    /\ pc = "ready"
    /\ ~HistogramRaises(col)
    /\ pc' = "done"
    /\ op' = "bins"
    /\ mode' = "bins"
    /\ out' = generate_frequency_bins(col, normalize)
    /\ UNCHANGED <<col, sort_by, normalize, raised, col_dtypes, ties_kept>>

\* _count_distinct_excel(_df, sort_by, normalize)
CountDistinctExcel ==
    /\ pc = "ready"
    /\ \E r \in count_distinct_excel(col, sort_by, normalize) :
        /\ raised' = r.raised
        /\ col' = r.col
        /\ col_dtypes' = IF r.tag = "unknown" THEN "unset" ELSE r.tag
        /\ mode' = r.mode
        /\ out' = r.out
        /\ ties_kept' = r.kept
    /\ pc' = "done"
    /\ op' = "count"
    /\ UNCHANGED <<sort_by, normalize>>

Next == DetectColDtypes \/ GenerateFrequencyBins \/ CountDistinctExcel

Spec == Init /\ [][Next]_vars

\* ------------------------------------------------------------------ claims
Returned(f) == pc = "done" /\ op = f /\ ~raised

\* a summary came back from the exact-count branch of the summarizer
ExactSummary == Returned("count") /\ mode = "exact"

\* a summary came back from the binner, called directly or by the summarizer
BinSummary == pc = "done" /\ mode = "bins" /\ ~raised

RowCount == Len(col.vals)
NullRows == {i \in 1..Len(out) : IsNA(out[i].label)}

\* C1: with normalize=false the counts of the bin rows plus the count of the
\* missing-value row equal the total row count of the column.
C1_BinCountsSumToRowCount ==
    (BinSummary /\ ~normalize) => ValueSum(out) = RowCount

\* C2: an exact-count summary accounts for every row: each row carries the
\* number of cells equal to its label, as a count (normalize=false) or over
\* the total row count (normalize=true), and the counts add up to the total
\* row count, so the fractions add up to total / total.
C2_ExactCountsAccountForEveryRow ==
    ExactSummary =>
        /\ \A i \in 1..Len(out) :
              /\ out[i].n = Cardinality({j \in 1..RowCount : col.vals[j] = out[i].label})
              /\ out[i].d = IF normalize THEN RowCount ELSE 1
        /\ SumSeq([i \in 1..Len(out) |-> out[i].n]) = RowCount

\* C2 witness: a normalized exact-count summary of a column that has both
\* missing cells and a value that occurs more than once
C2_Witness ==
    /\ ExactSummary /\ normalize
    /\ NullRows # {}
    /\ \E i \in 1..Len(out) : ~IsNA(out[i].label) /\ out[i].n > 1

\* C3: the classifier never raises and leaves exactly one tag out of
\* integer, float, currency, string, unknown on every column.
C3_ClassifierNeverRaises ==
    (pc = "done" /\ op = "detect") =>
        /\ ~raised
        /\ col_dtypes \in {"integer", "float", "currency", "string", "unknown"}

\* C4: the summarizer takes the exact-count branch exactly when the type is
\* string or the column, as it stands after currency cleaning, has fewer
\* than 10 distinct present values, and the binning branch otherwise; a
\* returned table is of the one kind or of the other, never of both.
C4_OneTabulationMode ==
    (pc = "done" /\ op = "count" /\ col_dtypes # "unset") =>
        LET distinct == Cardinality({col.vals[i] : i \in 1..RowCount} \ {NA})
            ranges   == {i \in 1..Len(out) :
                           IsStr(out[i].label) /\ out[i].label \notin {col.vals[j] : j \in 1..RowCount}
                           /\ \E m \in 1..Len(out[i].label.s) : out[i].label.s[m] = " to <"}
            values   == {i \in 1..Len(out) : out[i].label \in {col.vals[j] : j \in 1..RowCount}}
        IN  /\ mode \in {"exact", "bins"}
            /\ mode = "exact" <=> (col_dtypes = "string" \/ distinct < 10)
            /\ (mode = "exact" /\ ~raised) => (values = 1..Len(out) /\ ranges = {})
            /\ (mode = "bins" /\ ~raised) =>
                  (out # <<>> /\ IsNA(out[1].label) /\ ranges = 2..Len(out))

\* C4 witness: a currency column of 10 cells, all different before cleaning,
\* that has 9 distinct values after cleaning and is exact-counted
C4_Witness ==
    /\ ExactSummary /\ col_dtypes = "currency"
    /\ RowCount = LowCardinality
    /\ Len(out) = LowCardinality - 1

\* C5: the normalized output of the binner is its count output with every
\* measure divided by the total row count of the column.
C5_NormalizedIsCountOverRowCount ==
    (BinSummary /\ normalize) =>
        LET counts == generate_frequency_bins(col, FALSE)
        IN  /\ Len(out) = Len(counts)
            /\ \A i \in 1..Len(out) :
                  /\ out[i].label = counts[i].label
                  /\ out[i].d # 0
                  /\ out[i].n * RowCount = counts[i].n * out[i].d

\* C6: a column whose cells are all missing is classified and summarized
\* without an exception, and its summary is the single row of the missing
\* values, with the total row count (or the fraction 1) as its measure.
C6_AllMissingColumnIsSummarized ==
    (pc = "done" /\ op \in {"detect", "count"} /\ RowCount > 0
       /\ \A i \in 1..RowCount : IsNA(col.vals[i])) =>
        /\ ~raised
        /\ op = "count" => out = <<Row(NA, RowCount, IF normalize THEN RowCount ELSE 1)>>

AscendingLabels ==
    \A i, j \in 1..Len(out) :
        i < j => /\ ~IsNA(out[i].label)
                 /\ IsNA(out[j].label) \/ LabelLeq(out[i].label, out[j].label)

\* the rows stand in non-increasing order of the measure
NonIncreasingMeasures ==
    \A i, j \in 1..Len(out) : i < j => out[i].n * out[j].d >= out[j].n * out[i].d

\* C8 as stated: sort_by "index" gives ascending labels; sort_by "value"
\* gives non-increasing measures with rows of equal measure in the order
\* they had before the sort.
C8_SortedAndTiesKeepOrder ==
    ExactSummary =>
        IF Lower(sort_by) = "index" THEN AscendingLabels
        ELSE NonIncreasingMeasures /\ ties_kept

\* C8 amended: sort_by "index" gives ascending labels (the missing label
\* last); sort_by "value" gives non-increasing measures, the order of rows
\* of equal measure being left open.
C8_SortedBySortBy ==
    ExactSummary =>
        IF Lower(sort_by) = "index" THEN AscendingLabels ELSE NonIncreasingMeasures

\* C8 witness: a summary sorted by measure with two rows of equal measure
\* after a row of greater measure, the tied rows not in their earlier order
C8_Witness ==
    /\ ExactSummary /\ Lower(sort_by) # "index"
    /\ ~ties_kept
    /\ \E i \in 1..Len(out) : out[1].n > out[i].n

\* C9: the integer check succeeds exactly when every value parses as a number
\* and is whole; a column with a fractional value is never tagged integer.
C9_IntegerIffAllWhole ==
    (pc = "done" /\ op = "detect" /\ ~raised /\ \A i \in 1..RowCount : ~IsNA(col.vals[i])) =>
        (col_dtypes = "integer" <=>
            \A i \in 1..RowCount :
                FloatOk(col.vals[i]) /\ FloatVal(col.vals[i]) % Denom = 0)

\* C10: for a column with a present value the binner returns 11 rows: the
\* missing-value row, then one row for each of the 10 bins in ascending
\* order of range, the bin rows counting every present value once.
C10_ElevenRows ==
    (BinSummary /\ \E i \in 1..RowCount : ~IsNA(col.vals[i])) =>
        LET bins == histogram(PresentNums(col))
        IN  /\ Len(out) = 11
            /\ IsNA(out[1].label)
            /\ \A i \in 2..Len(out) :
                  out[i].label = BinLabel(bins.edges[i - 1], bins.edges[i])
            /\ SumSeq([i \in 1..(Len(out) - 1) |-> out[i + 1].n]) = Len(PresentNums(col))

====
